---- MODULE Spec2Model ----
(***************************************************************************)
(* Manifest reconciliation and merge engine of                             *)
(* src/ingestion/manifests.py: merge key, priority comparison, enrichment  *)
(* and merge_incident_manifests, modelled on bounded sets of rows.         *)
(*                                                                         *)
(* Python values: an Optional field is None (the empty tuple) or a         *)
(* one-element tuple holding the value.  Timestamps are integers (every    *)
(* retrieved_at the program produces is datetime.now(timezone.utc), and    *)
(* the codec keeps the offset, so any two of them compare).                *)
(***************************************************************************)
EXTENDS Integers, Sequences, FiniteSets, TLC

VARIABLES
    existing,   \* merge_incident_manifests: the rows loaded from the manifest file
    new,        \* merge_incident_manifests: the rows of this discovery pass
    merged,     \* merge_incident_manifests(existing, new)
    remerged,   \* merge_incident_manifests(merged, new): the same batch applied again
    a, b, c,    \* arguments of the pure functions
    enriched,   \* _enrich_winner(a, b)
    keys,       \* <<_get_merge_key(a), _get_merge_key(b)>>
    cmp,        \* results of _compare_rows on a, b, c
    sexisting,  \* merge_structured_manifests: the rows loaded from the manifest file
    snew,       \* merge_structured_manifests: the rows of this extraction pass
    smerged,    \* merge_structured_manifests(sexisting, snew)
    codec_rows,   \* save_incident_manifest: the rows handed to it
    codec_file,   \* the CSV file it wrote: one record of cell texts per line
    codec_loaded, \* load_incident_manifest of that file
    dl_row,   \* download_csb_pdf / download_bsee_pdf: the row handed to it
    dl_resp,   \* the outcome of session.get for its pdf_url
    dl_out,   \* the row it returned and the file it wrote
    manifest,   \* cmd_acquire: the manifest file at args.out
    before,   \* the manifest file as the last run found it
    acq,   \* the last run: its flags and the rows it discovered and downloaded
    clock,   \* datetime.now of the next run
    text_dir,   \* extract_structured: the .txt files of text_dir, by incident
    out_dir,   \* the output JSON files of out_dir, by incident
    xargs,   \* limit and resume of the run
    xout,   \* what the run returned and did
    smanifest,   \* cmd_extract_structured: the structured manifest file at args.manifest
    sbefore,   \* that file as the last run found it
    cmd,   \* the last run: provider name, environment, error raised, work done
    tmanifest,   \* cmd_extract_text: the text manifest file at args.out
    tbefore,   \* that file as the last run found it
    trun,   \* the last run: the incident manifest it read, what pdfplumber met, its time
    pc          \* which call has returned

engineVars == <<existing, new, merged, remerged, a, b, c, enriched, keys, cmp>>
structVars == <<sexisting, snew, smerged>>
codecVars == <<codec_rows, codec_file, codec_loaded>>
downloadVars == <<dl_row, dl_resp, dl_out>>
acquireVars == <<manifest, before, acq, clock>>
extractVars == <<text_dir, out_dir, xargs, xout>>
cmdVars == <<smanifest, sbefore, cmd>>
textVars == <<tmanifest, tbefore, trun>>

vars == <<engineVars, structVars, codecVars, downloadVars, acquireVars, extractVars, cmdVars, textVars, pc>>

(* ---------------- bounds ---------------- *)
MaxTime == 2
MaxSize == 1
MaxExisting == 2
MaxNew == 2

(* ---------------- Python values ---------------- *)
None == <<>>
Some(v) == <<v>>

\* bool(x) of an Optional[str]: None and "" are falsy
TruthyOptStr(x) == x # None /\ x[1] # ""
\* bool(x) of a str
TruthyStr(x) == x # ""
\* bool(x) of an Optional[datetime]: a datetime is always truthy
TruthyOptTime(x) == x # None

(* ---------------- record type ---------------- *)
Sources == {"csb", "bsee"}

DescriptiveFields == {"title", "date_occurred", "date_report_released", "detail_url", "pdf_path"}
StateFields == {"downloaded", "retrieved_at", "http_status", "content_type", "file_size_bytes", "sha256", "error"}
IdentityFields == {"source", "incident_id", "pdf_url"}

IncidentManifestRow(src, id, url) ==
    [source |-> src, incident_id |-> id, title |-> "", date_occurred |-> None,
     date_report_released |-> None, detail_url |-> "", pdf_url |-> url, pdf_path |-> "",
     downloaded |-> FALSE, retrieved_at |-> None, http_status |-> None,
     content_type |-> None, file_size_bytes |-> None, sha256 |-> None, error |-> None]

\* _get_merge_key without the pdf_url branch
_get_merge_key_id_only(row) == <<row.source, row.incident_id>>

\* _get_merge_key that leaves the source out of the key
_get_merge_key_no_source(row) ==
    IF row.pdf_url # "" THEN <<"", row.pdf_url>> ELSE <<"", row.incident_id>>

(* ---------------- merge key ---------------- *)
_get_merge_key(row) ==
    IF TruthyStr(row.pdf_url)
    THEN <<row.source, row.pdf_url>>
    ELSE <<row.source, row.incident_id>>

(* ---------------- the priority rules, one by one ---------------- *)
\* the four rules of the priority chain, each on its own: -1, 0 or 1
RankTime(t) == IF t = None THEN 0 ELSE t[1]
RankSize(z) == IF z = None THEN -1 ELSE z[1]
HasHash(h) == h # None /\ h[1] # ""
Sign(x, y) == IF x > y THEN -1 ELSE IF y > x THEN 1 ELSE 0
Rule1(x, y) == Sign(IF x.downloaded THEN 1 ELSE 0, IF y.downloaded THEN 1 ELSE 0)
Rule2(x, y) == Sign(RankTime(x.retrieved_at), RankTime(y.retrieved_at))
Rule3(x, y) == Sign(IF HasHash(x.sha256) THEN 1 ELSE 0, IF HasHash(y.sha256) THEN 1 ELSE 0)
Rule4(x, y) == Sign(RankSize(x.file_size_bytes), RankSize(y.file_size_bytes))
FirstNonTie(x, y) ==
    IF Rule1(x, y) # 0 THEN Rule1(x, y)
    ELSE IF Rule2(x, y) # 0 THEN Rule2(x, y)
    ELSE IF Rule3(x, y) # 0 THEN Rule3(x, y)
    ELSE Rule4(x, y)


\* _compare_rows with the timestamp rule ahead of the downloaded rule
_compare_rows_newest_first(x, y) ==
    IF Rule2(x, y) # 0 THEN Rule2(x, y)
    ELSE IF Rule1(x, y) # 0 THEN Rule1(x, y)
    ELSE IF Rule3(x, y) # 0 THEN Rule3(x, y)
    ELSE Rule4(x, y)

\* _compare_rows with the size rule ahead of the hash rule
_compare_rows_size_first(x, y) ==
    IF Rule1(x, y) # 0 THEN Rule1(x, y)
    ELSE IF Rule2(x, y) # 0 THEN Rule2(x, y)
    ELSE IF Rule4(x, y) # 0 THEN Rule4(x, y)
    ELSE Rule3(x, y)

\* _compare_rows whose timestamp rule is skipped when either side has none
_compare_rows_skip_missing_ts(x, y) ==
    LET rule2 == IF x.retrieved_at # None /\ y.retrieved_at # None THEN Rule2(x, y) ELSE 0
    IN IF Rule1(x, y) # 0 THEN Rule1(x, y)
       ELSE IF rule2 # 0 THEN rule2
       ELSE IF Rule3(x, y) # 0 THEN Rule3(x, y)
       ELSE Rule4(x, y)

\* _compare_rows whose timestamp rule lets x win on equal timestamps (>=)
_compare_rows_ge(x, y) ==
    LET rule2 == IF x.retrieved_at # None /\ y.retrieved_at # None
                 THEN (IF x.retrieved_at[1] >= y.retrieved_at[1] THEN -1 ELSE 1)
                 ELSE Rule2(x, y)
    IN IF Rule1(x, y) # 0 THEN Rule1(x, y)
       ELSE IF rule2 # 0 THEN rule2
       ELSE IF Rule3(x, y) # 0 THEN Rule3(x, y)
       ELSE Rule4(x, y)

(* ---------------- priority comparison ---------------- *)
\* -1 if x wins, 1 if y wins, 0 if tie; each rule returns or falls through
_compare_rows(x, y) ==
    \* Rule 1: downloaded=True beats False
    IF x.downloaded /\ ~y.downloaded THEN -1
    ELSE IF y.downloaded /\ ~x.downloaded THEN 1
    ELSE
    \* Rule 2: newer retrieved_at beats older
    LET rule2 ==
          IF TruthyOptTime(x.retrieved_at) /\ TruthyOptTime(y.retrieved_at)
          THEN (IF x.retrieved_at[1] > y.retrieved_at[1] THEN -1
                ELSE IF y.retrieved_at[1] > x.retrieved_at[1] THEN 1
                ELSE 0)
          ELSE IF TruthyOptTime(x.retrieved_at) /\ ~TruthyOptTime(y.retrieved_at) THEN -1
          ELSE IF TruthyOptTime(y.retrieved_at) /\ ~TruthyOptTime(x.retrieved_at) THEN 1
          ELSE 0
        \* Rule 3: sha256 present beats missing
        rule3 ==
          IF TruthyOptStr(x.sha256) /\ ~TruthyOptStr(y.sha256) THEN -1
          ELSE IF TruthyOptStr(y.sha256) /\ ~TruthyOptStr(x.sha256) THEN 1
          ELSE 0
        \* Rule 4: larger file_size_bytes beats smaller
        rule4 ==
          IF x.file_size_bytes # None /\ y.file_size_bytes # None
          THEN (IF x.file_size_bytes[1] > y.file_size_bytes[1] THEN -1
                ELSE IF y.file_size_bytes[1] > x.file_size_bytes[1] THEN 1
                ELSE 0)
          ELSE IF x.file_size_bytes # None /\ y.file_size_bytes = None THEN -1
          ELSE IF y.file_size_bytes # None /\ x.file_size_bytes = None THEN 1
          ELSE 0
    IN IF rule2 # 0 THEN rule2
       ELSE IF rule3 # 0 THEN rule3
       ELSE rule4

\* _enrich_winner that also fills absent state fields from the loser
_enrich_winner_state(winner, loser) ==
    [winner EXCEPT
       !.title = IF winner.title = "" /\ loser.title # "" THEN loser.title ELSE @,
       !.date_occurred = IF winner.date_occurred = None THEN loser.date_occurred ELSE @,
       !.date_report_released = IF winner.date_report_released = None
                                THEN loser.date_report_released ELSE @,
       !.detail_url = IF winner.detail_url = "" /\ loser.detail_url # "" THEN loser.detail_url ELSE @,
       !.pdf_path = IF winner.pdf_path = "" /\ loser.pdf_path # "" THEN loser.pdf_path ELSE @,
       !.http_status = IF winner.http_status = None THEN loser.http_status ELSE @,
       !.content_type = IF winner.content_type = None THEN loser.content_type ELSE @,
       !.error = IF winner.error = None THEN loser.error ELSE @]

\* _enrich_winner that forgets pdf_path
_enrich_winner_no_path(winner, loser) ==
    [winner EXCEPT
       !.title = IF winner.title = "" /\ loser.title # "" THEN loser.title ELSE @,
       !.date_occurred = IF winner.date_occurred = None THEN loser.date_occurred ELSE @,
       !.date_report_released = IF winner.date_report_released = None
                                THEN loser.date_report_released ELSE @,
       !.detail_url = IF winner.detail_url = "" /\ loser.detail_url # "" THEN loser.detail_url ELSE @]

(* ---------------- enrichment ---------------- *)
_enrich_winner(winner, loser) ==
    [winner EXCEPT
       !.title = IF ~TruthyStr(winner.title) /\ TruthyStr(loser.title)
                 THEN loser.title ELSE @,
       !.date_occurred = IF ~TruthyOptStr(winner.date_occurred) /\ TruthyOptStr(loser.date_occurred)
                 THEN loser.date_occurred ELSE @,
       !.date_report_released = IF ~TruthyOptStr(winner.date_report_released)
                                   /\ TruthyOptStr(loser.date_report_released)
                 THEN loser.date_report_released ELSE @,
       !.detail_url = IF ~TruthyStr(winner.detail_url) /\ TruthyStr(loser.detail_url)
                 THEN loser.detail_url ELSE @,
       !.pdf_path = IF ~TruthyStr(winner.pdf_path) /\ TruthyStr(loser.pdf_path)
                 THEN loser.pdf_path ELSE @]

(* ---------------- the by_key dict (insertion ordered) ---------------- *)
\* a dict is a sequence of [key, row] entries, in insertion order
DictHas(d, k) == \E i \in 1..Len(d) : d[i].key = k
DictIndex(d, k) == CHOOSE i \in 1..Len(d) : d[i].key = k
DictGet(d, k) == d[DictIndex(d, k)].row
\* DictSet of a list of pairs: every assignment appends
DictSet_append(d, k, v) == Append(d, [key |-> k, row |-> v])

\* d[k] = v: an existing key keeps its position, a new key is appended
DictSet(d, k, v) ==
    IF DictHas(d, k)
    THEN [d EXCEPT ![DictIndex(d, k)] = [key |-> k, row |-> v]]
    ELSE Append(d, [key |-> k, row |-> v])
DictValues(d) == [i \in 1..Len(d) |-> d[i].row]

(* ---------------- merge_incident_manifests ---------------- *)
RECURSIVE IndexExisting(_, _)
\* lines 300-302: for row in existing: by_key[key] = row
IndexExisting(by_key, rows) ==
    IF rows = <<>> THEN by_key
    ELSE IndexExisting(DictSet(by_key, _get_merge_key(Head(rows)), Head(rows)), Tail(rows))

\* MergeRow with comparison < 0: on a tie the incoming row wins
MergeRow_new_wins_tie(by_key, row) ==
    LET key == _get_merge_key(row) IN
    IF DictHas(by_key, key)
    THEN LET existing_row == DictGet(by_key, key)
             comparison == _compare_rows(existing_row, row)
         IN IF comparison < 0
            THEN DictSet(by_key, key, _enrich_winner(existing_row, row))
            ELSE DictSet(by_key, key, _enrich_winner(row, existing_row))
    ELSE DictSet(by_key, key, row)

\* MergeRow that ignores an incoming row whose key is not in the index
MergeRow_drop_unmatched(by_key, row) ==
    LET key == _get_merge_key(row) IN
    IF DictHas(by_key, key)
    THEN LET existing_row == DictGet(by_key, key)
             comparison == _compare_rows(existing_row, row)
         IN IF comparison <= 0
            THEN DictSet(by_key, key, _enrich_winner(existing_row, row))
            ELSE DictSet(by_key, key, _enrich_winner(row, existing_row))
    ELSE by_key

\* MergeRow in which the incoming row takes the entry whatever the comparison
MergeRow_incoming_wins(by_key, row) ==
    LET key == _get_merge_key(row) IN
    IF DictHas(by_key, key)
    THEN DictSet(by_key, key, _enrich_winner(row, DictGet(by_key, key)))
    ELSE DictSet(by_key, key, row)

\* lines 306-319: one iteration of the loop over new
MergeRow(by_key, row) ==
    LET key == _get_merge_key(row) IN
    IF DictHas(by_key, key)
    THEN LET existing_row == DictGet(by_key, key)
             comparison == _compare_rows(existing_row, row)
         IN IF comparison <= 0
            THEN DictSet(by_key, key, _enrich_winner(existing_row, row))
            ELSE DictSet(by_key, key, _enrich_winner(row, existing_row))
    ELSE DictSet(by_key, key, row)

RECURSIVE MergeNew(_, _)
MergeNew(by_key, rows) ==
    IF rows = <<>> THEN by_key
    ELSE MergeNew(MergeRow(by_key, Head(rows)), Tail(rows))

\* merge_incident_manifests that runs the rows of existing through the
\* comparison and the enrichment too
merge_incident_manifests_rank_existing(ex, nw) ==
    DictValues(MergeNew(MergeNew(<<>>, ex), nw))

merge_incident_manifests(ex, nw) ==
    DictValues(MergeNew(IndexExisting(<<>>, ex), nw))

(* ---------------- bounded inputs ---------------- *)
Times == 1..MaxTime
Sizes == 0..MaxSize
IncidentIds == {"i1", "i2"}
PdfUrls == {"", "u1"}

Opt(S) == {None} \cup {Some(v) : v \in S}

\* all lists over U of length at most n
RECURSIVE Lists(_, _)
Lists(U, n) ==
    IF n = 0 THEN {<<>>}
    ELSE LET shorter == Lists(U, n - 1)
         IN shorter \cup {Append(l, r) : l \in {x \in shorter : Len(x) = n - 1}, r \in U}

\* the state facts a row carries after discovery only, after a download that
\* raised a request exception and after a successful download (v names the
\* attempt: its error text or its content hash)
StubState == [downloaded |-> FALSE, retrieved_at |-> None, http_status |-> None,
              content_type |-> None, file_size_bytes |-> None, sha256 |-> None, error |-> None]
FailedState(v) == [downloaded |-> FALSE, retrieved_at |-> Some(1), http_status |-> None,
              content_type |-> None, file_size_bytes |-> None, sha256 |-> None,
              error |-> Some(v)]
SuccessState(v) == [downloaded |-> TRUE, retrieved_at |-> Some(MaxTime), http_status |-> Some(200),
              content_type |-> Some("application/pdf"), file_size_bytes |-> Some(MaxSize),
              sha256 |-> Some(v), error |-> None]
StateProfiles(v) == {StubState, FailedState(v), SuccessState(v)}

\* r with the state fields of st
WithState(r, st) ==
    [r EXCEPT !.downloaded = st.downloaded, !.retrieved_at = st.retrieved_at,
              !.http_status = st.http_status, !.content_type = st.content_type,
              !.file_size_bytes = st.file_size_bytes, !.sha256 = st.sha256, !.error = st.error]

\* rows over every identity: the "i1" rows are titled stubs, the "i2" rows are
\* untitled successful downloads
KeyRows ==
    {IF i = "i1"
     THEN [IncidentManifestRow(s, i, u) EXCEPT !.title = "Title One", !.pdf_path = "pdfs/one.pdf"]
     ELSE WithState(IncidentManifestRow(s, i, u), SuccessState("h1")) :
     s \in Sources, i \in IncidentIds, u \in PdfUrls}

\* rows of one identity over the fields _compare_rows reads
HashSizes == {<<None, None>>, <<Some("h1"), None>>, <<Some("h2"), Some(MaxSize)>>}
StateRows ==
    {[IncidentManifestRow("csb", "i1", "u1") EXCEPT
        !.title = "Title One", !.detail_url = "detail", !.pdf_path = "pdfs/one.pdf",
        !.downloaded = d, !.retrieved_at = t, !.sha256 = hs[1], !.file_size_bytes = hs[2],
        !.http_status = IF t = None THEN None ELSE IF d THEN Some(200) ELSE Some(404),
        !.content_type = IF t = None THEN None ELSE Some("application/pdf")] :
     d \in BOOLEAN, t \in Opt(Times), hs \in HashSizes}

\* rows of one pdf_url whose descriptive fields are each empty or v
DescRows(v, id) ==
    {WithState([IncidentManifestRow("csb", id, "u1") EXCEPT
        !.title = ti, !.date_occurred = d1, !.date_report_released = d2,
        !.detail_url = du, !.pdf_path = pp], st) :
     ti \in {"", v}, d1 \in Opt({v}), d2 \in Opt({v}), du \in {"", v}, pp \in {"", v},
     st \in StateProfiles(v)}

\* rows over the fields _compare_rows reads, sizes 0 included
CmpRows ==
    {[IncidentManifestRow("csb", "i1", "u1") EXCEPT
        !.downloaded = d, !.retrieved_at = t, !.sha256 = h, !.file_size_bytes = sz] :
     d \in BOOLEAN, t \in Opt(Times), h \in Opt({"h1"}), sz \in Opt(Sizes)}

\* rows in which the text of an incident_id is also the text of a pdf_url
ClashRows ==
    {[IncidentManifestRow(s, i, u) EXCEPT !.title = "Title " \o i] :
     s \in Sources, i \in {"i1", "u1"}, u \in PdfUrls}

NoRow == IncidentManifestRow("csb", "", "")
NoCmp == [aa |-> 0, ab |-> 0, ba |-> 0, bc |-> 0, ac |-> 0]

(* ---------------- the merge engine ---------------- *)
Idle == /\ merged = <<>> /\ remerged = <<>>
        /\ enriched = NoRow /\ keys = <<>> /\ cmp = NoCmp

\* the merge engine before it is given anything
EngineIdle ==
    /\ Idle
    /\ existing = <<>> /\ new = <<>>
    /\ a = NoRow /\ b = NoRow /\ c = NoRow

StructIdle == sexisting = <<>> /\ snew = <<>> /\ smerged = <<>>

CodecIdle == codec_rows = <<>> /\ codec_file = <<>> /\ codec_loaded = <<>>

DownloadIdle == dl_row = <<>> /\ dl_resp = <<>> /\ dl_out = <<>>

AcquireIdle == manifest = <<>> /\ before = <<>> /\ acq = <<>> /\ clock = 0

ExtractIdle == text_dir = <<>> /\ out_dir = <<>> /\ xargs = <<>> /\ xout = <<>>

CmdIdle == smanifest = <<>> /\ sbefore = <<>> /\ cmd = <<>>

TextIdle == tmanifest = <<>> /\ tbefore = <<>> /\ trun = <<>>

\* every part of the program other than g is idle
IdleExcept(g) ==
    /\ (IF g = "engine" THEN TRUE ELSE EngineIdle)
    /\ (IF g = "struct" THEN TRUE ELSE StructIdle)
    /\ (IF g = "codec" THEN TRUE ELSE CodecIdle)
    /\ (IF g = "download" THEN TRUE ELSE DownloadIdle)
    /\ (IF g \in {"acquire", "cmd"} THEN TRUE ELSE AcquireIdle)
    /\ (IF g \in {"extract", "cmd"} THEN TRUE ELSE ExtractIdle)
    /\ (IF g = "cmd" THEN TRUE ELSE CmdIdle)
    /\ (IF g = "text" THEN TRUE ELSE TextIdle)

\* a step of part g leaves the other parts alone
Frame(g) ==
    /\ (IF g = "engine" THEN TRUE ELSE UNCHANGED engineVars)
    /\ (IF g = "struct" THEN TRUE ELSE UNCHANGED structVars)
    /\ (IF g = "codec" THEN TRUE ELSE UNCHANGED codecVars)
    /\ (IF g = "download" THEN TRUE ELSE UNCHANGED downloadVars)
    /\ (IF g \in {"acquire", "cmd"} THEN TRUE ELSE UNCHANGED acquireVars)
    /\ (IF g \in {"extract", "cmd"} THEN TRUE ELSE UNCHANGED extractVars)
    /\ (IF g = "cmd" THEN TRUE ELSE UNCHANGED cmdVars)
    /\ (IF g = "text" THEN TRUE ELSE UNCHANGED textVars)

\* lists over every identity
InitKeys ==
    /\ existing \in Lists(KeyRows, MaxExisting)
    /\ new \in Lists(KeyRows, MaxNew)
    /\ a = NoRow /\ b = NoRow /\ c = NoRow
    /\ pc = "start"

\* one manifest row (no duplicate key) against a batch for the same key
InitState ==
    /\ existing \in Lists(StateRows, 1)
    /\ new \in Lists(StateRows, MaxNew)
    /\ a = NoRow /\ b = NoRow /\ c = NoRow
    /\ pc = "start"

\* the same list on both sides
InitSame ==
    /\ existing \in Lists(KeyRows \cup StateRows, MaxExisting)
    /\ new = existing
    /\ a = NoRow /\ b = NoRow /\ c = NoRow
    /\ pc = "start"

\* one existing row against one incoming row of the same pdf_url
InitDesc ==
    /\ \E e \in DescRows("old", "i1"), n \in DescRows("new", "i2") :
          existing = <<e>> /\ new = <<n>>
    /\ a = NoRow /\ b = NoRow /\ c = NoRow
    /\ pc = "start"

\* one existing row against one incoming row, an incident_id spelled as a
\* pdf_url among them
InitClash ==
    /\ \E e \in ClashRows, n \in ClashRows : existing = <<e>> /\ new = <<n>>
    /\ a = NoRow /\ b = NoRow /\ c = NoRow
    /\ pc = "start"

\* two rows handed to _enrich_winner and _get_merge_key
InitPair ==
    /\ \/ a \in DescRows("old", "i1") /\ b \in DescRows("new", "i2")
       \/ a \in ClashRows /\ b \in ClashRows
       \/ a \in KeyRows /\ b \in KeyRows \cup {[r EXCEPT !.title = "Other", !.error = Some("e")] : r \in KeyRows}
    /\ c = NoRow
    /\ existing = <<>> /\ new = <<>>
    /\ pc = "pair"

Init ==
    /\ Idle /\ IdleExcept("engine")
    /\ (InitKeys \/ InitState \/ InitSame \/ InitDesc \/ InitClash \/ InitPair)

Merge ==
    /\ pc = "start"
    /\ merged' = merge_incident_manifests(existing, new)
    /\ pc' = "merged"
    /\ UNCHANGED <<existing, new, remerged, a, b, c, enriched, keys, cmp>>
    /\ Frame("engine")

Remerge ==
    /\ pc = "merged"
    /\ remerged' = merge_incident_manifests(merged, new)
    /\ pc' = "remerged"
    /\ UNCHANGED <<existing, new, merged, a, b, c, enriched, keys, cmp>>
    /\ Frame("engine")

Enrich ==
    /\ pc = "pair"
    /\ enriched' = _enrich_winner(a, b)
    /\ pc' = "enriched"
    /\ UNCHANGED <<existing, new, merged, remerged, a, b, c, keys, cmp>>
    /\ Frame("engine")

GetKey ==
    /\ pc = "enriched"
    /\ keys' = <<_get_merge_key(a), _get_merge_key(b)>>
    /\ pc' = "keyed"
    /\ UNCHANGED <<existing, new, merged, remerged, a, b, c, enriched, cmp>>
    /\ Frame("engine")

Next == Merge \/ Remerge \/ Enrich \/ GetKey

Spec == Init /\ [][Next]_vars

(* ---------------- the comparator on its own ---------------- *)
InitCompare ==
    /\ Idle /\ IdleExcept("engine")
    /\ a \in CmpRows /\ b \in CmpRows /\ c \in CmpRows
    /\ existing = <<>> /\ new = <<>>
    /\ pc = "start"

Compare ==
    /\ pc = "start"
    /\ cmp' = [aa |-> _compare_rows(a, a), ab |-> _compare_rows(a, b),
               ba |-> _compare_rows(b, a), bc |-> _compare_rows(b, c),
               ac |-> _compare_rows(a, c)]
    /\ pc' = "compared"
    /\ UNCHANGED <<existing, new, merged, remerged, a, b, c, enriched, keys>>
    /\ Frame("engine")

NextCompare == Compare

SpecCompare == InitCompare /\ [][NextCompare]_vars

(* ---------------- structured manifest: src/ingestion/structured.py ---------------- *)
\* a file path, as the directory it is in and the incident it is named after
PathOf(dir, id) == dir \o "/" \o id

\* lines 197-203: the row extract_structured starts from for one text file
StructuredManifestRow(id, provider_name, model_name) ==
    [incident_id |-> id,
     source_text_path |-> PathOf("text", id),
     output_json_path |-> PathOf("json", id),
     provider |-> provider_name,
     model |-> model_name,
     extracted |-> FALSE,
     extracted_at |-> None,
     valid |-> FALSE,
     validation_errors |-> None,
     error |-> None,
     raw_response_path |-> None]

\* lines 207-211: the text file is empty
EmptyTextRow(row) == [row EXCEPT !.error = Some("Empty text file")]

\* lines 221, 236-239: the response could not be parsed
ParseFailedRow(row, now) ==
    [row EXCEPT !.raw_response_path = Some(PathOf("raw", row.incident_id)),
                !.extracted = TRUE,
                !.extracted_at = Some(now),
                !.valid = FALSE,
                !.validation_errors = Some("JSON parse error")]

\* lines 221, 250-255: the response parsed and went through validation
ValidatedRow(row, now, is_valid) ==
    [row EXCEPT !.raw_response_path = Some(PathOf("raw", row.incident_id)),
                !.valid = is_valid,
                !.extracted = TRUE,
                !.extracted_at = Some(now),
                !.validation_errors = IF is_valid THEN None ELSE Some("validation errors")]

RECURSIVE UpsertAll(_, _)
\* lines 70-73: for row in rows: by_id[row.incident_id] = row
UpsertAll(by_id, rows) ==
    IF rows = <<>> THEN by_id
    ELSE UpsertAll(DictSet(by_id, Head(rows).incident_id, Head(rows)), Tail(rows))

\* merge_structured_manifests that returns the rows of this pass alone
merge_structured_manifests_new_only(ex, nw) ==
    DictValues(UpsertAll(<<>>, nw))

\* merge_structured_manifests in which a row already in the manifest is kept
merge_structured_manifests_keep_existing(ex, nw) ==
    DictValues(UpsertAll(UpsertAll(<<>>, nw), ex))

\* lines 64-74
merge_structured_manifests(ex, nw) ==
    DictValues(UpsertAll(UpsertAll(<<>>, ex), nw))

\* the rows an extraction pass can leave for an incident
StructRows ==
    UNION {LET row == StructuredManifestRow(id, "stub", None)
           IN {EmptyTextRow(row), ParseFailedRow(row, 1), ValidatedRow(row, MaxTime, TRUE)}
           : id \in IncidentIds}

InitStructured ==
    /\ IdleExcept("struct")
    /\ sexisting \in Lists(StructRows, MaxExisting)
    /\ snew \in Lists(StructRows, MaxNew)
    /\ smerged = <<>>
    /\ pc = "start"

MergeStructured ==
    /\ pc = "start"
    /\ smerged' = merge_structured_manifests(sexisting, snew)
    /\ pc' = "upserted"
    /\ UNCHANGED <<sexisting, snew>>
    /\ Frame("struct")

NextStructured == MergeStructured

SpecStructured == InitStructured /\ [][NextStructured]_vars

(* ---------------- manifest CSV codec: manifests.py 53-112 ---------------- *)
\* list(IncidentManifestRow.model_fields.keys()): the header of the file
FieldNames ==
    <<"source", "incident_id", "title", "date_occurred", "date_report_released",
      "detail_url", "pdf_url", "pdf_path", "downloaded", "retrieved_at",
      "http_status", "content_type", "file_size_bytes", "sha256", "error">>
Columns == {FieldNames[i] : i \in 1..Len(FieldNames)}
IntFields == {"http_status", "file_size_bytes"}
OptStrFields == {"date_occurred", "date_report_released", "content_type", "sha256", "error"}

\* the integers a manifest row of the model can hold
HttpStatuses == {200, 404}
IntValues == Sizes \cup HttpStatuses

\* datetime.isoformat() of a UTC timestamp
isoformat(t) == "2026-01-0" \o ToString(t) \o "T00:00:00+00:00"
\* datetime.fromisoformat
fromisoformat(cell) == CHOOSE t \in Times : isoformat(t) = cell
\* int(cell)
int(cell) == CHOOSE n \in IntValues : ToString(n) = cell
\* str.lower() on the texts the downloaded column holds
lower(cell) ==
    CASE cell = "True" -> "true"
      [] cell = "False" -> "false"
      [] OTHER -> cell

\* lines 104-112: the cells written for one row
save_row(row) ==
    [f \in Columns |->
        LET v == row[f] IN
        CASE f = "downloaded" -> (IF v THEN "True" ELSE "False")
          [] f = "retrieved_at" -> (IF TruthyOptTime(v) THEN isoformat(v[1]) ELSE "")
          [] f \in IntFields -> (IF v = None THEN "" ELSE ToString(v[1]))
          [] f \in OptStrFields -> (IF v = None THEN "" ELSE v[1])
          [] OTHER -> v]

\* load_row that compares the cell with "true" without lower-casing it
load_row_no_lower(cells) ==
    [f \in Columns |->
        LET cell == cells[f] IN
        CASE f = "downloaded" -> (cell = "true")
          [] f \in IntFields -> (IF cell = "" THEN None ELSE Some(int(cell)))
          [] f = "retrieved_at" -> (IF cell # "" THEN Some(fromisoformat(cell)) ELSE None)
          [] f \in OptStrFields -> (IF cell = "" THEN None ELSE Some(cell))
          [] OTHER -> cell]

\* lines 62-90: the row built from the cells of one line
load_row(cells) ==
    [f \in Columns |->
        LET cell == cells[f] IN
        CASE f = "downloaded" -> (lower(cell) = "true")
          [] f \in IntFields -> (IF cell = "" THEN None ELSE Some(int(cell)))
          [] f = "retrieved_at" -> (IF cell # "" THEN Some(fromisoformat(cell)) ELSE None)
          [] f \in OptStrFields -> (IF cell = "" THEN None ELSE Some(cell))
          [] OTHER -> cell]

\* lines 94-112
save_incident_manifest(rows) == [i \in 1..Len(rows) |-> save_row(rows[i])]
\* lines 59-91, for a file that exists
load_incident_manifest(file) == [i \in 1..Len(file) |-> load_row(file[i])]

\* rows for the codec: every optional field absent, every optional field
\* present, a response without a Content-Type header (content_type ""),
\* every timestamp and size
CodecRows ==
    LET r0 == IncidentManifestRow("csb", "i1", "u1")
        r1 == [IncidentManifestRow("bsee", "i2", "") EXCEPT
                  !.title = "T", !.date_occurred = Some("2020"),
                  !.date_report_released = Some("2021"), !.pdf_path = "p"]
        sts == {StubState, FailedState("err"), SuccessState("h1"),
                [SuccessState("h1") EXCEPT !.content_type = Some("")]}
               \cup {[SuccessState("h1") EXCEPT !.retrieved_at = Some(t),
                                                !.file_size_bytes = Some(z)]
                     : t \in Times, z \in Sizes}
    IN {WithState(r, st) : r \in {r0, r1}, st \in sts}

InitCodec ==
    /\ IdleExcept("codec")
    /\ codec_rows \in Lists(CodecRows, MaxNew)
    /\ codec_file = <<>> /\ codec_loaded = <<>>
    /\ pc = "start"

Save ==
    /\ pc = "start"
    /\ codec_file' = save_incident_manifest(codec_rows)
    /\ pc' = "saved"
    /\ UNCHANGED <<codec_rows, codec_loaded>>
    /\ Frame("codec")

Load ==
    /\ pc = "saved"
    /\ codec_loaded' = load_incident_manifest(codec_file)
    /\ pc' = "loaded"
    /\ UNCHANGED <<codec_rows, codec_file>>
    /\ Frame("codec")

NextCodec == Save \/ Load

SpecCodec == InitCodec /\ [][NextCodec]_vars

(* ---------------- download_csb_pdf / download_bsee_pdf ---------------- *)
\* csb.py 156-228 and bsee.py 115-187 are the same code
ContentTypes == {"", "application/pdf", "text/html"}
DownloadUrls == {"u1.pdf", "u2.pdf", "page.html"}

\* "pdf" in content_type
HasPdf(text) == text \in {"application/pdf"}
\* pdf_url.lower().endswith(".pdf")
EndsWithPdf(url) == lower(url) \in {"u1.pdf", "u2.pdf"}

\* what session.get, the streaming of the body and the writing of the file
\* can do: raise a RequestException, answer with a status and a Content-Type
\* header ("" when the header is missing), deliver a body, break while it is
\* streamed, or fail in f.write with an OSError
Responses ==
    {[raised |-> TRUE, status |-> 200, content_type |-> "", size |-> 0, breaks |-> FALSE,
      disk_fails |-> FALSE]}
    \cup {[raised |-> FALSE, status |-> 404, content_type |-> ct, size |-> 0, breaks |-> FALSE,
           disk_fails |-> FALSE] : ct \in ContentTypes}
    \cup {[raised |-> FALSE, status |-> 200, content_type |-> ct, size |-> z, breaks |-> br,
           disk_fails |-> FALSE] : ct \in ContentTypes, z \in Sizes, br \in BOOLEAN}
    \cup {[raised |-> FALSE, status |-> 200, content_type |-> ct, size |-> MaxSize,
           breaks |-> FALSE, disk_fails |-> TRUE] : ct \in ContentTypes}

\* nothing written at pdf_path
NoFile == [written |-> FALSE, sha256 |-> "", size |-> 0]
\* the bytes written before the stream broke
PartialFile == [written |-> TRUE, sha256 |-> "partial", size |-> 0]
\* hashlib.sha256 of a body of the model, named after its length
Digest(size) == "sha-" \o ToString(size)

\* download_pdf that streams every 200 response to disk
download_pdf_any_type(row, resp, now) ==
    LET updated == [row EXCEPT !.retrieved_at = Some(now),
                               !.http_status = Some(resp.status),
                               !.content_type = Some(resp.content_type)]
        failed == [row EXCEPT !.retrieved_at = Some(now), !.downloaded = FALSE,
                              !.error = Some("request failed")]
    IN IF resp.raised THEN [row |-> failed, file |-> NoFile, raises |-> ""]
       ELSE IF resp.status # 200
       THEN [row |-> [updated EXCEPT !.downloaded = FALSE], file |-> NoFile, raises |-> ""]
       ELSE IF resp.disk_fails THEN [row |-> row, file |-> PartialFile, raises |-> "OSError"]
       ELSE IF resp.breaks THEN [row |-> failed, file |-> PartialFile, raises |-> ""]
       ELSE [row |-> [updated EXCEPT !.downloaded = TRUE,
                                     !.file_size_bytes = Some(resp.size),
                                     !.sha256 = Some(Digest(resp.size))],
             file |-> [written |-> TRUE, sha256 |-> Digest(resp.size), size |-> resp.size],
             raises |-> ""]

\* csb.py 177-228: the returned row and the file left at pdf_path
download_pdf(row, resp, now) ==
    LET updated == [row EXCEPT !.retrieved_at = Some(now),
                               !.http_status = Some(resp.status),
                               !.content_type = Some(resp.content_type)]
        \* lines 220-228: except requests.RequestException
        failed == [row EXCEPT !.retrieved_at = Some(now), !.downloaded = FALSE,
                              !.error = Some("request failed")]
        content_type == lower(resp.content_type)
        is_pdf == HasPdf(content_type) \/ EndsWithPdf(row.pdf_url)
    IN IF resp.raised THEN [row |-> failed, file |-> NoFile, raises |-> ""]
       ELSE IF resp.status # 200
       THEN [row |-> [updated EXCEPT !.downloaded = FALSE], file |-> NoFile, raises |-> ""]
       ELSE IF ~is_pdf
       THEN [row |-> [updated EXCEPT !.downloaded = FALSE,
                                     !.error = Some("Not a PDF: " \o content_type)],
             file |-> NoFile, raises |-> ""]
       \* lines 205-209: an OSError of f.write is no RequestException: it leaves
       \* the function, with the bytes written so far in the file
       ELSE IF resp.disk_fails THEN [row |-> row, file |-> PartialFile, raises |-> "OSError"]
       ELSE IF resp.breaks THEN [row |-> failed, file |-> PartialFile, raises |-> ""]
       ELSE [row |-> [updated EXCEPT !.downloaded = TRUE,
                                     !.file_size_bytes = Some(resp.size),
                                     !.sha256 = Some(Digest(resp.size))],
             file |-> [written |-> TRUE, sha256 |-> Digest(resp.size), size |-> resp.size],
             raises |-> ""]

\* rows as discovery or a caller hands them over: no state field set
FreshRows == {IncidentManifestRow(src, "i1", url) : src \in Sources, url \in DownloadUrls}

InitDownload ==
    /\ IdleExcept("download")
    /\ dl_row \in FreshRows
    /\ dl_resp \in Responses
    /\ dl_out = <<>>
    /\ pc = "start"

Download ==
    /\ pc = "start"
    /\ dl_out' = download_pdf(dl_row, dl_resp, 1)
    /\ pc' = "downloaded"
    /\ UNCHANGED <<dl_row, dl_resp>>
    /\ Frame("download")

NextDownload == Download

SpecDownload == InitDownload /\ [][NextDownload]_vars

(* ---------------- cmd_acquire: pipeline.py 132-175 ---------------- *)
\* out_path does not exist
MissingFile == [exists |-> FALSE, lines |-> <<>>]
\* the files under raw_dir, by pdf_path
PdfPaths == {"csb/pdfs/u1.pdf", "csb/pdfs/u2.pdf"}
NoRun == [append |-> FALSE, download |-> FALSE, new_rows |-> <<>>, only_append |-> TRUE,
          only_download |-> TRUE, discovered |-> <<>>, raises |-> "",
          disk |-> [p \in PdfPaths |-> NoFile]]

\* what discovery can yield: two investigations sharing one report, and a
\* third; pdf_path is csb/pdfs/ and the file name of the URL (csb.py 129-140)
Discovered ==
    {[IncidentManifestRow("csb", "i1", "u1.pdf") EXCEPT !.pdf_path = "csb/pdfs/u1.pdf"],
     [IncidentManifestRow("csb", "i2", "u1.pdf") EXCEPT !.title = "T", !.pdf_path = "csb/pdfs/u1.pdf"],
     [IncidentManifestRow("csb", "i3", "u2.pdf") EXCEPT !.pdf_path = "csb/pdfs/u2.pdf"]}
\* what a download of one of them can meet
AcquireResponses ==
    {r \in Responses : r.raised \/ (r.content_type = "application/pdf" /\ r.size = MaxSize)}
\* a discovered row with the response its download would get
Found == {[row |-> r, resp |-> p] : r \in Discovered, p \in AcquireResponses}

RECURSIVE NewRows(_, _, _, _)
\* lines 143-161: the rows appended to new_rows and the files written, up to
\* the first download that raises
NewRows(found, download, now, run) ==
    IF found = <<>> \/ run.raises # "" THEN run
    ELSE LET row == Head(found).row
             d == download_pdf(row, Head(found).resp, now)
         IN IF ~download
            THEN NewRows(Tail(found), download, now, [run EXCEPT !.rows = Append(@, row)])
            ELSE NewRows(Tail(found), download, now,
                    [rows |-> IF d.raises = "" THEN Append(run.rows, d.row) ELSE run.rows,
                     disk |-> IF d.file.written
                              THEN [run.disk EXCEPT ![row.pdf_path] = d.file] ELSE run.disk,
                     raises |-> d.raises])

\* lines 137-141, 163-171: the file cmd_acquire leaves at out_path
cmd_acquire(file, append, new_rows) ==
    LET existing_rows == IF append /\ file.exists
                         THEN load_incident_manifest(file.lines) ELSE <<>>
        rows == IF append /\ existing_rows # <<>>
                THEN merge_incident_manifests(existing_rows, new_rows)
                ELSE new_rows
    IN [exists |-> TRUE, lines |-> save_incident_manifest(rows)]

InitAcquire ==
    /\ IdleExcept("acquire")
    /\ manifest = MissingFile /\ before = MissingFile
    /\ acq = NoRun
    /\ clock = 1
    /\ pc = "start"

\* one run of cmd_acquire
Acquire ==
    /\ clock <= MaxTime
    /\ \E append \in BOOLEAN, download \in BOOLEAN :
       \E found \in IF download THEN Lists(Found, MaxNew)
                    ELSE Lists({f \in Found : f.resp.raised}, MaxNew) :
          LET run == NewRows(found, download, clock,
                             [rows |-> <<>>, disk |-> acq.disk, raises |-> ""])
          IN /\ manifest' = IF run.raises = ""
                            THEN cmd_acquire(manifest, append, run.rows) ELSE manifest
             /\ acq' = [append |-> append, download |-> download, new_rows |-> run.rows,
                        only_append |-> acq.only_append /\ append,
                        only_download |-> acq.only_download /\ download,
                        discovered |-> found,
                        raises |-> run.raises, disk |-> run.disk]
    /\ before' = manifest
    /\ clock' = clock + 1
    /\ pc' = "acquired"
    /\ Frame("acquire")

NextAcquire == Acquire

SpecAcquire == InitAcquire /\ [][NextAcquire]_vars

(* ---------------- extract_structured: structured.py 95-271 ---------------- *)
\* the incidents a text directory can hold, in sorted file-name order
TextIds == <<"i1", "i2", "i3">>
TextIdSet == {TextIds[i] : i \in 1..Len(TextIds)}

\* an LLM response, by what the three strategies of _parse_llm_json meet:
\* raises: provider.extract raised instead of answering;
\* direct: what json.loads of the stripped text gives ("no": it raises);
\* fence: the text starts with ```; unfenced: what json.loads gives once
\* the fence lines are dropped; block: the first balanced {...} block
RawResponses ==
    {[raises |-> FALSE, direct |-> "object", fence |-> FALSE, unfenced |-> "no", block |-> "object"],
     [raises |-> FALSE, direct |-> "array", fence |-> FALSE, unfenced |-> "no", block |-> "none"],
     [raises |-> FALSE, direct |-> "no", fence |-> TRUE, unfenced |-> "object", block |-> "object"],
     [raises |-> FALSE, direct |-> "no", fence |-> FALSE, unfenced |-> "no", block |-> "object"],
     [raises |-> FALSE, direct |-> "no", fence |-> FALSE, unfenced |-> "no", block |-> "bad"],
     [raises |-> FALSE, direct |-> "no", fence |-> TRUE, unfenced |-> "no", block |-> "none"]}

\* lines 95-135: the kind of value returned, or JSONDecodeError
_parse_llm_json(raw) ==
    IF raw.direct # "no" THEN raw.direct
    ELSE IF raw.fence /\ raw.unfenced # "no" THEN raw.unfenced
    ELSE IF raw.block = "object" THEN "object"
    ELSE "JSONDecodeError"

\* a text file with what processing it meets: its text, the provider's
\* answer (or its raising), the validator's verdict, whether out_dir can be
\* written
TextFile(text, llm, is_valid, disk_ok) ==
    [text |-> text, llm |-> llm, is_valid |-> is_valid, disk_ok |-> disk_ok]
\* provider.extract raises
Raises == [raises |-> TRUE, direct |-> "no", fence |-> FALSE, unfenced |-> "no", block |-> "none"]
FileKinds ==
    LET Plain == [raises |-> FALSE, direct |-> "object", fence |-> FALSE, unfenced |-> "no", block |-> "object"]
        NoJson == [raises |-> FALSE, direct |-> "no", fence |-> TRUE, unfenced |-> "no", block |-> "none"]
    IN {TextFile("empty", Raises, FALSE, TRUE), TextFile("text", Raises, FALSE, TRUE)}
       \cup {TextFile("text", raw, TRUE, TRUE) : raw \in RawResponses}
       \cup {TextFile("text", Plain, FALSE, TRUE), TextFile("text", Plain, TRUE, FALSE),
             TextFile("text", NoJson, FALSE, FALSE)}
Absent_ == TextFile("absent", Raises, FALSE, TRUE)

\* ProcessFile in which a JSONDecodeError is left to the outer handler
ProcessFile_parse_error_uncaught(id, file, now) ==
    LET row == StructuredManifestRow(id, "stub", None)
        raw_row == [row EXCEPT !.raw_response_path = Some(PathOf("raw", id))]
        done(r, json, raw, call) == [row |-> r, json |-> json, raw |-> raw, call |-> call]
    IN IF file.text = "empty" THEN done(EmptyTextRow(row), "keep", FALSE, FALSE)
       ELSE IF file.llm.raises
       THEN done([row EXCEPT !.error = Some("provider error")], "keep", FALSE, TRUE)
       ELSE LET payload == _parse_llm_json(file.llm) IN
            IF payload # "object"
            THEN done([raw_row EXCEPT !.error = Some("TypeError")], "keep", TRUE, TRUE)
            ELSE IF ~file.disk_ok
            THEN done([ValidatedRow(row, now, file.is_valid) EXCEPT !.error = Some("OSError")],
                      "keep", TRUE, TRUE)
            ELSE done(ValidatedRow(row, now, file.is_valid),
                      IF file.is_valid THEN "payload" ELSE "payload_errors", TRUE, TRUE)

\* lines 197-268: the row appended for one text file, the output JSON
\* written ("keep": none), whether the raw response was saved and whether
\* the provider was called
ProcessFile(id, file, now) ==
    LET row == StructuredManifestRow(id, "stub", None)
        raw_row == [row EXCEPT !.raw_response_path = Some(PathOf("raw", id))]
        done(r, json, raw, call) == [row |-> r, json |-> json, raw |-> raw, call |-> call]
    IN IF file.text = "empty" THEN done(EmptyTextRow(row), "keep", FALSE, FALSE)
       ELSE IF file.llm.raises
       THEN done([row EXCEPT !.error = Some("provider error")], "keep", FALSE, TRUE)
       ELSE LET payload == _parse_llm_json(file.llm) IN
            IF payload = "JSONDecodeError"
            THEN IF file.disk_ok
                 THEN done(ParseFailedRow(row, now), "error_json", TRUE, TRUE)
                 ELSE done([raw_row EXCEPT !.error = Some("OSError")], "keep", TRUE, TRUE)
            \* line 246: payload["incident_id"] = incident_id on a value that is no object
            ELSE IF payload # "object"
            THEN done([raw_row EXCEPT !.error = Some("TypeError")], "keep", TRUE, TRUE)
            \* lines 249-261: flags are set before the JSON is written
            ELSE IF ~file.disk_ok
            THEN done([ValidatedRow(row, now, file.is_valid) EXCEPT !.error = Some("OSError")],
                      "keep", TRUE, TRUE)
            ELSE done(ValidatedRow(row, now, file.is_valid),
                      IF file.is_valid THEN "payload" ELSE "payload_errors", TRUE, TRUE)

RECURSIVE ExtractLoop(_, _, _)
\* lines 183-269: the loop over the sorted text files
ExtractLoop(ids, st, run) ==
    IF ids = <<>> THEN st
    ELSE LET id == Head(ids) IN
         IF run.resume /\ st.json[id] # "none" THEN ExtractLoop(Tail(ids), st, run)
         ELSE IF run.limit # None /\ st.processed >= run.limit[1] THEN st
         ELSE LET p == ProcessFile(id, run.dir[id], run.now)
              IN ExtractLoop(Tail(ids),
                             [rows |-> Append(st.rows, p.row),
                              processed |-> st.processed + 1,
                              json |-> IF p.json = "keep" THEN st.json
                                       ELSE [st.json EXCEPT ![id] = p.json],
                              wrote |-> IF p.json = "keep" THEN st.wrote ELSE st.wrote \cup {id},
                              raw |-> IF p.raw THEN st.raw \cup {id} ELSE st.raw,
                              calls |-> IF p.call THEN Append(st.calls, id) ELSE st.calls],
                             run)

\* extract_structured that processes a file whether its output JSON exists or not
extract_structured_no_resume(dir, json, limit, resume, now) ==
    ExtractLoop(SelectSeq(TextIds, LAMBDA id : dir[id].text # "absent"),
                [rows |-> <<>>, processed |-> 0, json |-> json, wrote |-> {}, raw |-> {},
                 calls |-> <<>>],
                [dir |-> dir, limit |-> limit, resume |-> FALSE, now |-> now])

\* extract_structured that goes through every file whatever the limit
extract_structured_no_limit(dir, json, limit, resume, now) ==
    ExtractLoop(SelectSeq(TextIds, LAMBDA id : dir[id].text # "absent"),
                [rows |-> <<>>, processed |-> 0, json |-> json, wrote |-> {}, raw |-> {},
                 calls |-> <<>>],
                [dir |-> dir, limit |-> None, resume |-> resume, now |-> now])

\* lines 149-271: sorted(text_dir.glob("*.txt")), then the loop
extract_structured(dir, json, limit, resume, now) ==
    ExtractLoop(SelectSeq(TextIds, LAMBDA id : dir[id].text # "absent"),
                [rows |-> <<>>, processed |-> 0, json |-> json, wrote |-> {}, raw |-> {},
                 calls |-> <<>>],
                [dir |-> dir, limit |-> limit, resume |-> resume, now |-> now])

Limits == {None} \cup {Some(n) : n \in 0..MaxNew}

InitExtract ==
    /\ IdleExcept("extract")
    /\ text_dir \in [TextIdSet -> FileKinds \cup {Absent_}]
    /\ out_dir \in [TextIdSet -> {"none", "payload"}]
    /\ xargs \in [limit : Limits, resume : BOOLEAN]
    /\ xout = <<>>
    /\ pc = "start"

Extract ==
    /\ pc = "start"
    /\ LET st == extract_structured(text_dir, out_dir, xargs.limit, xargs.resume, 1)
       IN /\ out_dir' = st.json
          /\ xout' = [rows |-> st.rows, raw |-> st.raw, calls |-> st.calls,
                      wrote |-> st.wrote, json_before |-> out_dir]
    /\ pc' = "extracted"
    /\ UNCHANGED <<text_dir, xargs>>
    /\ Frame("extract")

\* the same call once more, on the same text directory and with the same
\* limit and resume, on the output directory the last call left
ExtractAgain ==
    /\ pc = "extracted"
    /\ LET st == extract_structured(text_dir, out_dir, xargs.limit, xargs.resume, 1)
       IN /\ out_dir' = st.json
          /\ xout' = [rows |-> st.rows, raw |-> st.raw, calls |-> st.calls,
                      wrote |-> st.wrote, json_before |-> out_dir]
    /\ pc' = "extracted"
    /\ UNCHANGED <<text_dir, xargs>>
    /\ Frame("extract")

NextExtract == Extract \/ ExtractAgain

SpecExtract == InitExtract /\ [][NextExtract]_vars

(* ---------------- cmd_extract_structured: pipeline.py 207-243 ---------------- *)
\* registry.py 7
SUPPORTED_PROVIDERS == {"stub", "openai", "anthropic", "gemini"}
\* registry.py 9-13
_ENV_KEY_MAP ==
    [name \in {"openai", "anthropic", "gemini"} |->
        CASE name = "openai" -> "OPENAI_API_KEY"
          [] name = "anthropic" -> "ANTHROPIC_API_KEY"
          [] name = "gemini" -> "GEMINI_API_KEY"]
\* the keyword arguments of the call at pipeline.py 215-222
CallKwargs == {"model", "max_output_tokens", "temperature", "timeout", "retries"}

\* get_provider that hands out the stub provider whatever it is asked for
get_provider_unchecked(name, kwargs, env) == "StubProvider"

\* registry.py 16-52: the provider returned or the exception raised; the
\* signature is (name, model=None), any other keyword fails the call
get_provider(name, kwargs, env) ==
    IF ~(kwargs \subseteq {"model"}) THEN "TypeError"
    ELSE IF name \notin SUPPORTED_PROVIDERS THEN "ValueError"
    ELSE IF name = "stub" THEN "StubProvider"
    ELSE IF _ENV_KEY_MAP[name] \notin env THEN "RuntimeError"
    ELSE "NotImplementedError"

StrFields == {"incident_id", "source_text_path", "output_json_path", "provider"}
\* structured.py 77-92
save_structured_manifest(rows) ==
    [i \in 1..Len(rows) |->
        [f \in DOMAIN rows[i] |->
            LET v == rows[i][f] IN
            CASE f \in {"extracted", "valid"} -> (IF v THEN "True" ELSE "False")
              [] f = "extracted_at" -> (IF TruthyOptTime(v) THEN isoformat(v[1]) ELSE "")
              [] f \in StrFields -> v
              [] OTHER -> (IF v = None THEN "" ELSE v[1])]]
\* structured.py 36-61, for a file that exists
load_structured_manifest(lines) ==
    [i \in 1..Len(lines) |->
        [f \in DOMAIN lines[i] |->
            LET cell == lines[i][f] IN
            CASE f \in {"extracted", "valid"} -> (lower(cell) = "true")
              [] f = "extracted_at" -> (IF cell # "" THEN Some(fromisoformat(cell)) ELSE None)
              [] f \in StrFields -> cell
              [] OTHER -> (IF cell = "" THEN None ELSE Some(cell))]]

\* pipeline.py 224-237: extract, load the manifest, merge, save
StructuredPass(file, json, dir, limit, resume, now) ==
    LET st == extract_structured(dir, json, limit, resume, now)
        existing_rows == IF file.exists THEN load_structured_manifest(file.lines) ELSE <<>>
        merged_rows == merge_structured_manifests(existing_rows, st.rows)
    IN [file |-> [exists |-> TRUE, lines |-> save_structured_manifest(merged_rows)],
        st |-> st]

Providers == {"stub", "openai", "bogus"}
Environments == {{}, {"OPENAI_API_KEY"}}
\* the text directories of the runs: i1 and i2 missing, answered with JSON,
\* with JSON inside prose, or with a broken block; no i3
CmdDirs ==
    LET kinds == {f \in FileKinds : /\ f.disk_ok /\ f.text = "text" /\ f.is_valid
                                    /\ ~f.llm.raises /\ ~f.llm.fence /\ f.llm.direct # "array"}
    IN {d \in [TextIdSet -> kinds \cup {Absent_}] : d["i3"] = Absent_}
CmdLimits == {None, Some(0), Some(1)}
NoCmdRun == [name |-> "", env |-> {}, raised |-> "", processed |-> {}, calls |-> <<>>,
             json_before |-> <<>>]

InitCmd ==
    /\ IdleExcept("cmd")
    /\ text_dir = <<>> /\ xargs = <<>> /\ xout = <<>>
    /\ manifest = <<>> /\ before = <<>> /\ acq = <<>>
    /\ out_dir = [id \in TextIdSet |-> "none"]
    /\ smanifest = MissingFile /\ sbefore = MissingFile
    /\ cmd = NoCmdRun
    /\ clock = 1
    /\ pc = "start"

\* what a run leaves when it goes through lines 224-237
RunPass(name, env, dir, limit, resume) ==
    LET r == StructuredPass(smanifest, out_dir, dir, limit, resume, clock)
    IN /\ smanifest' = r.file
       /\ out_dir' = r.st.json
       /\ cmd' = [name |-> name, env |-> env, raised |-> "",
                  processed |-> {r.st.rows[i].incident_id : i \in 1..Len(r.st.rows)},
                  calls |-> r.st.calls, json_before |-> out_dir]

\* one run of cmd_extract_structured
CmdExtractStructured ==
    /\ clock <= MaxTime
    /\ \E name \in Providers, env \in Environments, dir \in CmdDirs,
          limit \in CmdLimits, resume \in BOOLEAN :
          LET provider == get_provider(name, CallKwargs, env)
          IN IF provider = "StubProvider"
             THEN RunPass(name, env, dir, limit, resume)
             ELSE /\ cmd' = [name |-> name, env |-> env, raised |-> provider,
                             processed |-> {}, calls |-> <<>>, json_before |-> out_dir]
                  /\ UNCHANGED <<smanifest, out_dir>>
    /\ sbefore' = smanifest
    /\ clock' = clock + 1
    /\ pc' = "cmd_done"
    /\ UNCHANGED <<text_dir, xargs, xout, manifest, before, acq>>
    /\ Frame("cmd")

\* the same steps with a provider built by the caller
\* (tests/test_extract_structured.py 140-169)
ExtractMergeSave ==
    /\ clock <= MaxTime
    /\ \E dir \in CmdDirs, limit \in CmdLimits, resume \in BOOLEAN :
          RunPass("stub", {}, dir, limit, resume)
    /\ sbefore' = smanifest
    /\ clock' = clock + 1
    /\ pc' = "pass_done"
    /\ UNCHANGED <<text_dir, xargs, xout, manifest, before, acq>>
    /\ Frame("cmd")

\* get_provider called as the registry declares it (tests/test_registry.py)
GetProvider ==
    /\ \E name \in Providers, env \in Environments, kwargs \in {{}, {"model"}} :
          LET provider == get_provider(name, kwargs, env)
          IN cmd' = [NoCmdRun EXCEPT !.name = name, !.env = env, !.raised = provider]
    /\ pc' = "resolved"
    /\ UNCHANGED <<smanifest, sbefore, out_dir, clock>>
    /\ UNCHANGED <<text_dir, xargs, xout, manifest, before, acq>>
    /\ Frame("cmd")

NextCmd == CmdExtractStructured \/ ExtractMergeSave \/ GetProvider

SpecCmd == InitCmd /\ [][NextCmd]_vars

(* ---------------- cmd_extract_text: pipeline.py 178-196, pdf_text.py ---------------- *)
\* pdf_text.py 60-80: pdfs becomes text, .pdf becomes .txt
_compute_text_path(pdf_path_str) ==
    CASE pdf_path_str = "csb/pdfs/u1.pdf" -> "csb/text/u1.txt"
      [] pdf_path_str = "csb/pdfs/u2.pdf" -> "csb/text/u2.txt"
      [] OTHER -> pdf_path_str

\* pdf_text.py 14-57, as (page_count, char_count, error): the PDF is not
\* there, pdfplumber raises, the pages hold no text, the pages hold text
PdfOutcomes ==
    {[page_count |-> 0, char_count |-> 0, error |-> Some("PDF not found")],
     [page_count |-> 0, char_count |-> 0, error |-> Some("unreadable")],
     [page_count |-> 1, char_count |-> 0, error |-> None],
     [page_count |-> 1, char_count |-> 1, error |-> None]}

\* pdf_text.py 83-132
process_incident_manifest(incident_manifest, pdfs, now) ==
    LET todo == SelectSeq(incident_manifest, LAMBDA row : row.downloaded)
    IN [i \in 1..Len(todo) |->
           LET row == todo[i]
               got == pdfs[row.pdf_path]
           IN [source |-> row.source, incident_id |-> row.incident_id,
               pdf_path |-> row.pdf_path, text_path |-> _compute_text_path(row.pdf_path),
               extracted |-> (got.error = None), extracted_at |-> Some(now),
               extractor |-> "pdfplumber", page_count |-> Some(got.page_count),
               char_count |-> Some(got.char_count), is_empty |-> (got.char_count = 0),
               error |-> got.error]]

\* manifests.py 150-169
save_text_manifest(rows) ==
    [i \in 1..Len(rows) |->
        [f \in DOMAIN rows[i] |->
            LET v == rows[i][f] IN
            CASE f \in {"extracted", "is_empty"} -> (IF v THEN "True" ELSE "False")
              [] f = "extracted_at" -> (IF TruthyOptTime(v) THEN isoformat(v[1]) ELSE "")
              [] f \in {"page_count", "char_count"} -> (IF v = None THEN "" ELSE ToString(v[1]))
              [] f = "error" -> (IF v = None THEN "" ELSE v[1])
              [] OTHER -> v]]

\* pipeline.py 178-196: the file left at args.out
cmd_extract_text(file, incident_file, pdfs, now) ==
    LET incident_rows == IF incident_file.exists
                         THEN load_incident_manifest(incident_file.lines) ELSE <<>>
        downloaded_rows == SelectSeq(incident_rows, LAMBDA r : r.downloaded)
        text_rows == process_incident_manifest(downloaded_rows, pdfs, now)
    IN [exists |-> TRUE, lines |-> save_text_manifest(text_rows)]

\* the incident manifests a run can find: missing, or up to MaxNew rows of
\* discovered records, downloaded or not
IncidentFiles ==
    LET ok == CHOOSE r \in AcquireResponses : ~r.raised /\ ~r.breaks /\ ~r.disk_fails
        rows == {r \in Discovered : r.incident_id # "i2"}
                \cup {download_pdf(r, ok, 1).row : r \in {x \in Discovered : x.incident_id # "i2"}}
    IN {MissingFile} \cup
       {[exists |-> TRUE, lines |-> save_incident_manifest(l)] : l \in Lists(rows, MaxNew)}

InitText ==
    /\ IdleExcept("text")
    /\ tmanifest = MissingFile /\ tbefore = MissingFile
    /\ trun = [clock |-> 1, incident_ids |-> {}]
    /\ pc = "start"

\* one run of cmd_extract_text
ExtractText ==
    /\ trun.clock <= MaxTime
    /\ \E incident_file \in IncidentFiles, pdfs \in [PdfPaths -> PdfOutcomes] :
          /\ tmanifest' = cmd_extract_text(tmanifest, incident_file, pdfs, trun.clock)
          /\ trun' = [clock |-> trun.clock + 1,
                      incident_ids |-> {l.incident_id : l \in
                          {incident_file.lines[i] : i \in 1..Len(incident_file.lines)}}]
    /\ tbefore' = tmanifest
    /\ pc' = "text_done"
    /\ Frame("text")

NextText == ExtractText

SpecText == InitText /\ [][NextText]_vars

(* ---------------- vocabulary of the properties ---------------- *)
\* the merge key as the specification words it
KeyOf(r) == <<r.source, IF r.pdf_url # "" THEN r.pdf_url ELSE r.incident_id>>

RowsOf(l) == {l[i] : i \in 1..Len(l)}
KeysOf(l) == {KeyOf(l[i]) : i \in 1..Len(l)}
NoDupKeys(l) == \A i, j \in 1..Len(l) : KeyOf(l[i]) = KeyOf(l[j]) => i = j
\* the positions of l that hold a row with key k
At(l, k) == {i \in 1..Len(l) : KeyOf(l[i]) = k}
SameOn(F, r, x) == \A f \in F : r[f] = x[f]
IsOptional(f) == f \in {"date_occurred", "date_report_released"}
NonEmpty(f, v) == IF IsOptional(f) THEN v # None /\ v[1] # "" ELSE v # ""
MergeDone == pc \in {"merged", "remerged"}

\* C1: with no duplicate keys in existing, a downloaded existing row e whose
\* key only meets incoming rows with downloaded=false is the one output row
\* for its key in all seven state fields, whatever the incoming rows carry
C1_MonotonicProgress ==
    (MergeDone /\ NoDupKeys(existing)) =>
        \A i \in 1..Len(existing) :
            LET e == existing[i] IN
            (e.downloaded /\ \A j \in At(new, KeyOf(e)) : ~new[j].downloaded)
            => /\ Cardinality(At(merged, KeyOf(e))) = 1
               /\ \A k \in At(merged, KeyOf(e)) : SameOn(StateFields, merged[k], e)

\* an older download with a hash survived a newer failed attempt that
\* carries another hash
C1_Witness ==
    /\ MergeDone /\ Len(existing) = 1 /\ Len(new) = 2 /\ Len(merged) = 1
    /\ existing[1].downloaded /\ existing[1].sha256 = Some("h2")
    /\ \A j \in 1..2 : /\ KeyOf(new[j]) = KeyOf(existing[1])
                       /\ ~new[j].downloaded
                       /\ new[j].retrieved_at # None
                       /\ existing[1].retrieved_at # None
                       /\ new[j].retrieved_at[1] > existing[1].retrieved_at[1]
                       /\ new[j].sha256 = Some("h1")
    /\ merged[1].downloaded /\ merged[1].sha256 = Some("h2")

\* C2: merge(S, S) has exactly one row per distinct key of S, and when S has
\* no duplicate keys every output row equals the row of S with its key
C2_Idempotence ==
    (MergeDone /\ new = existing) =>
        /\ \A k \in KeysOf(existing) : Cardinality(At(merged, k)) = 1
        /\ KeysOf(merged) = KeysOf(existing)
        /\ NoDupKeys(existing) =>
               \A i \in 1..Len(existing) :
                   \A k \in At(merged, KeyOf(existing[i])) : merged[k] = existing[i]

C2_Witness ==
    /\ MergeDone /\ new = existing /\ Len(existing) = 2 /\ NoDupKeys(existing)
    /\ existing[1].downloaded /\ existing[1].title = ""
    /\ ~existing[2].downloaded /\ existing[2].retrieved_at # None
    /\ merged = existing

\* C3: merge(merge(A, B), B) = merge(A, B), row for row and field for field
C3_ReapplyBatch == pc = "remerged" => remerged = merged

\* the batch holds two rows of the existing row's key, the later one beats
\* the earlier and the existing row
C3_Witness ==
    /\ pc = "remerged" /\ Len(existing) = 1 /\ Len(new) = 2 /\ Len(merged) = 1
    /\ KeyOf(new[1]) = KeyOf(existing[1]) /\ KeyOf(new[2]) = KeyOf(existing[1])
    /\ _compare_rows(existing[1], new[1]) < 0
    /\ _compare_rows(existing[1], new[2]) > 0
    /\ merged # existing /\ remerged = merged

\* C4: _compare_rows(a, b) is the verdict of the first rule that does not tie
\* (downloaded, retrieved_at, sha256 presence, file_size_bytes), and 0 only
\* when all four tie
C4_PriorityChain ==
    pc = "compared" =>
        /\ cmp.ab = FirstNonTie(a, b)
        /\ cmp.ab = 0 <=> (Rule1(a, b) = 0 /\ Rule2(a, b) = 0 /\ Rule3(a, b) = 0 /\ Rule4(a, b) = 0)

\* downloaded and retrieved_at are equal; a has the hash, b the larger size:
\* the hash rule decides for a
C4_Witness ==
    /\ pc = "compared"
    /\ a.downloaded = b.downloaded /\ a.retrieved_at = b.retrieved_at /\ a.retrieved_at # None
    /\ a.sha256 # None /\ b.sha256 = None
    /\ a.file_size_bytes = Some(0) /\ b.file_size_bytes = Some(MaxSize)
    /\ cmp.ab = -1

\* C5: _compare_rows returns -1, 0 or 1, is 0 on (a, a), is antisymmetric, and
\* "wins or ties" is transitive
C5_TotalOrder ==
    pc = "compared" =>
        /\ cmp.ab \in {-1, 0, 1}
        /\ cmp.aa = 0
        /\ cmp.ab = -cmp.ba
        /\ (cmp.ab <= 0 /\ cmp.bc <= 0) => cmp.ac <= 0

\* a chain over missing fields: a beats b on a present timestamp, b beats c
\* on a present size
C5_Witness ==
    /\ pc = "compared"
    /\ ~a.downloaded /\ ~b.downloaded /\ ~c.downloaded
    /\ a.retrieved_at # None /\ b.retrieved_at = None /\ c.retrieved_at = None
    /\ a.sha256 = None /\ a.file_size_bytes = None
    /\ b.sha256 = c.sha256 /\ b.file_size_bytes = Some(0) /\ c.file_size_bytes = None
    /\ cmp.ab = -1 /\ cmp.bc = -1 /\ cmp.ac = -1

\* C6 as stated: whenever an existing row e and an incoming row n share a
\* merge key and tie, the output row for that key has e's incident_id, e's
\* state fields and every descriptive value that is non-empty in e
C6_TieExistingWins_AsStated ==
    MergeDone =>
        \A i \in 1..Len(existing), j \in 1..Len(new) :
            LET e == existing[i]
                n == new[j]
            IN (KeyOf(e) = KeyOf(n) /\ _compare_rows(e, n) = 0) =>
                   \A k \in At(merged, KeyOf(e)) :
                       /\ merged[k].incident_id = e.incident_id
                       /\ SameOn(StateFields, merged[k], e)
                       /\ \A f \in DescriptiveFields :
                              NonEmpty(f, e[f]) => merged[k][f] = e[f]

\* C6 amended: with no duplicate keys in existing, an existing row e that
\* ties with an incoming row n of its key, and that no incoming row of that
\* key beats, gives the output row its incident_id, state fields and every
\* descriptive value that is non-empty in e
C6_TieExistingWins ==
    (MergeDone /\ NoDupKeys(existing)) =>
        \A i \in 1..Len(existing), j \in 1..Len(new) :
            LET e == existing[i]
                n == new[j]
            IN (/\ KeyOf(e) = KeyOf(n) /\ _compare_rows(e, n) = 0
                /\ \A x \in At(new, KeyOf(e)) : _compare_rows(e, new[x]) <= 0) =>
                   /\ Cardinality(At(merged, KeyOf(e))) = 1
                   /\ \A k \in At(merged, KeyOf(e)) :
                       /\ merged[k].incident_id = e.incident_id
                       /\ SameOn(StateFields, merged[k], e)
                       /\ \A f \in DescriptiveFields :
                              NonEmpty(f, e[f]) => merged[k][f] = e[f]

\* a tie between two failed attempts with different errors and incident ids:
\* the existing row's error and id stay, its empty title is filled
C6_Witness ==
    /\ MergeDone /\ Len(existing) = 1 /\ Len(new) = 1 /\ Len(merged) = 1
    /\ KeyOf(existing[1]) = KeyOf(new[1])
    /\ _compare_rows(existing[1], new[1]) = 0
    /\ existing[1].error # None /\ new[1].error # None
    /\ existing[1].error # new[1].error
    /\ existing[1].incident_id # new[1].incident_id
    /\ existing[1].title = "" /\ new[1].title # ""
    /\ existing[1].pdf_path # "" /\ new[1].pdf_path # ""
    /\ merged[1].error = existing[1].error
    /\ merged[1].title = new[1].title

\* C7: _enrich_winner(winner, loser) keeps the winner's source, incident_id,
\* pdf_url and seven state fields even where they are absent in the winner
\* and present in the loser; every output row of the merge has the identity
\* and state fields of one single input row
C7_StateNeverFromLoser ==
    /\ pc \in {"enriched", "keyed"} => SameOn(IdentityFields \cup StateFields, enriched, a)
    /\ MergeDone =>
           \A k \in 1..Len(merged) :
               \E x \in RowsOf(existing) \cup RowsOf(new) :
                   SameOn(IdentityFields \cup StateFields, merged[k], x)

\* the winner is a stub without state, the loser a successful download with
\* every state fact set; a descriptive field was filled from the loser
C7_Witness ==
    /\ pc = "enriched"
    /\ ~a.downloaded /\ a.retrieved_at = None /\ a.http_status = None /\ a.content_type = None
    /\ a.file_size_bytes = None /\ a.sha256 = None
    /\ b.downloaded /\ b.retrieved_at # None /\ b.http_status # None /\ b.content_type # None
    /\ b.file_size_bytes # None /\ b.sha256 # None
    /\ a.title = "" /\ b.title # "" /\ enriched.title = b.title
    /\ enriched.sha256 = None /\ ~enriched.downloaded

\* C8: when one existing row and one incoming row share a merge key, each
\* descriptive field of the merged row is the winner's value if that is
\* non-empty and the loser's value otherwise
C8_DescriptiveEnrichment ==
    (MergeDone /\ Len(existing) = 1 /\ Len(new) = 1 /\ KeyOf(existing[1]) = KeyOf(new[1])) =>
        LET e == existing[1]
            n == new[1]
            winner == IF _compare_rows(e, n) <= 0 THEN e ELSE n
            loser == IF _compare_rows(e, n) <= 0 THEN n ELSE e
        IN /\ Len(merged) = 1
           /\ \A f \in DescriptiveFields :
                  /\ merged[1][f] = IF NonEmpty(f, winner[f]) THEN winner[f] ELSE loser[f]
                  /\ (NonEmpty(f, e[f]) \/ NonEmpty(f, n[f])) => NonEmpty(f, merged[1][f])

\* the incoming row wins on state; its empty title and date are filled from
\* the existing row, its own non-empty pdf_path is kept
C8_Witness ==
    /\ MergeDone /\ Len(existing) = 1 /\ Len(new) = 1 /\ Len(merged) = 1
    /\ KeyOf(existing[1]) = KeyOf(new[1])
    /\ _compare_rows(existing[1], new[1]) > 0
    /\ new[1].title = "" /\ existing[1].title # ""
    /\ new[1].date_occurred = None /\ existing[1].date_occurred # None
    /\ new[1].pdf_path # "" /\ existing[1].pdf_path # "" /\ new[1].pdf_path # existing[1].pdf_path
    /\ merged[1].title = existing[1].title
    /\ merged[1].date_occurred = existing[1].date_occurred
    /\ merged[1].pdf_path = new[1].pdf_path

\* C9: _get_merge_key(row) is (source, pdf_url) when pdf_url is non-empty and
\* (source, incident_id) otherwise; rows equal in source, incident_id and
\* pdf_url get the same key whatever their other fields
C9_MergeKey ==
    pc = "keyed" =>
        /\ keys[1] = IF a.pdf_url # "" THEN <<a.source, a.pdf_url>> ELSE <<a.source, a.incident_id>>
        /\ keys[2] = IF b.pdf_url # "" THEN <<b.source, b.pdf_url>> ELSE <<b.source, b.incident_id>>
        /\ SameOn(IdentityFields, a, b) => keys[1] = keys[2]

\* a has no pdf_url and is keyed by its incident_id; b has the same identity
\* fields but another title and error
C9_Witness ==
    /\ pc = "keyed"
    /\ a.pdf_url = "" /\ SameOn(IdentityFields, a, b)
    /\ a.title # b.title /\ a.error # b.error
    /\ keys[1] = <<a.source, a.incident_id>> /\ keys[2] = keys[1]

\* C10: the output holds exactly one row for each distinct merge key of
\* existing and incoming, no other row, and each output row has the key it
\* stands for
C10_Deduplication ==
    MergeDone =>
        LET K == KeysOf(existing) \cup KeysOf(new)
        IN /\ \A k \in K : Cardinality(At(merged, k)) = 1
           /\ KeysOf(merged) = K
           /\ Len(merged) = Cardinality(K)

\* the same pdf_url under two sources stays two rows, two rows without a
\* pdf_url and with the same (source, incident_id) become one
C10_Witness ==
    /\ MergeDone /\ Len(existing) = 2 /\ Len(new) = 2 /\ Len(merged) = 3
    /\ existing[1].pdf_url = "u1" /\ new[1].pdf_url = "u1"
    /\ existing[1].source # new[1].source
    /\ existing[2].pdf_url = "" /\ new[2].pdf_url = ""
    /\ existing[2].source = new[2].source /\ existing[2].incident_id = new[2].incident_id
    /\ existing[2].source = existing[1].source

\* C11: an input row (existing or incoming) whose merge key occurs in no
\* other input row is in the output equal to itself in every field; with an
\* empty existing list and a single incoming row the output is that row
C11_PassThrough ==
    MergeDone =>
        LET inp == existing \o new
        IN /\ \A i \in 1..Len(inp) :
                At(inp, KeyOf(inp[i])) = {i} =>
                    \E j \in 1..Len(merged) : merged[j] = inp[i]
           /\ (existing = <<>> /\ Len(new) = 1) => merged = new

\* an existing row and an incoming row with different keys, both passed
\* through, the incoming one with its own state and descriptive fields
C11_Witness ==
    /\ MergeDone /\ Len(existing) = 1 /\ Len(new) = 1
    /\ KeyOf(existing[1]) # KeyOf(new[1])
    /\ merged = <<existing[1], new[1]>>
    /\ new[1].downloaded /\ ~existing[1].downloaded

\* the positions of l that hold a row of incident id
AtId(l, id) == {i \in 1..Len(l) : l[i].incident_id = id}
IdsOf(l) == {l[i].incident_id : i \in 1..Len(l)}
\* the last row of l for incident id
LastOf(l, id) == l[CHOOSE i \in AtId(l, id) : \A j \in AtId(l, id) : j <= i]

\* C12: merge_structured_manifests is an upsert by incident_id: one row for
\* each incident_id of either list and no other row; for an id in new the
\* row is the last row of new with that id, in every field; for an id only
\* in existing the row is the (last) existing row with that id, unchanged
C12_Upsert ==
    pc = "upserted" =>
        /\ IdsOf(smerged) = IdsOf(sexisting) \cup IdsOf(snew)
        /\ \A id \in IdsOf(smerged) : Cardinality(AtId(smerged, id)) = 1
        /\ \A id \in IdsOf(snew) : LastOf(smerged, id) = LastOf(snew, id)
        /\ \A id \in IdsOf(sexisting) \ IdsOf(snew) :
              LastOf(smerged, id) = LastOf(sexisting, id)

\* i1 is valid in the manifest and comes twice in new, last with a parse
\* failure, which replaces the valid row; i2 is only in the manifest
C12_Witness ==
    /\ pc = "upserted" /\ Len(sexisting) = 2 /\ Len(snew) = 2 /\ Len(smerged) = 2
    /\ sexisting[1].incident_id = "i1" /\ sexisting[1].valid
    /\ sexisting[2].incident_id = "i2"
    /\ snew[1].incident_id = "i1" /\ snew[2].incident_id = "i1"
    /\ snew[1] # snew[2] /\ ~snew[2].valid /\ snew[2].extracted
    /\ smerged = <<snew[2], sexisting[2]>>

\* an optional string field holding the empty string
HasEmptyOptStr(r) == \E f \in OptStrFields : r[f] = Some("")
\* r with every empty optional string taken as absent
Absent(r) == [f \in DOMAIN r |-> IF f \in OptStrFields /\ r[f] = Some("") THEN None ELSE r[f]]

\* C13 as stated: every list of rows the record type admits is loaded back
\* from the file it was saved to equal to itself, field for field
C13_RoundTrip_AsStated ==
    pc = "loaded" => codec_loaded = codec_rows

\* C13: a list of rows is loaded back from the file it was saved to with
\* every field as it was, except that an optional string field holding the
\* empty string comes back absent; so a list in which every optional string
\* is absent or non-empty is loaded back equal to itself
C13_RoundTrip ==
    pc = "loaded" =>
        /\ codec_loaded = [i \in 1..Len(codec_rows) |-> Absent(codec_rows[i])]
        /\ (\A i \in 1..Len(codec_rows) : ~HasEmptyOptStr(codec_rows[i]))
              => codec_loaded = codec_rows

\* a list of a row with every optional field absent and a downloaded row
\* with every optional field but error present came back as it was
C13_Witness ==
    /\ pc = "loaded" /\ Len(codec_rows) = 2 /\ codec_loaded = codec_rows
    /\ \A f \in OptStrFields \cup IntFields \cup {"retrieved_at"} : codec_rows[1][f] = None
    /\ ~codec_rows[1].downloaded /\ codec_rows[2].downloaded
    /\ \A f \in (OptStrFields \ {"error"}) \cup IntFields \cup {"retrieved_at"} :
          codec_rows[2][f] # None
    /\ codec_file[2].downloaded = "True" /\ codec_file[1].http_status = ""

\* C16: when the request raises a network exception or the response status
\* is not 2xx, the returned row has downloaded=false and a non-empty error
C16_FailuresRecorded ==
    (pc = "downloaded" /\ (dl_resp.raised \/ dl_resp.status \notin 200..299)) =>
        /\ ~dl_out.row.downloaded
        /\ TruthyOptStr(dl_out.row.error)

\* the Content-Type header names a PDF
IndicatesPdf(ct) == ct = "application/pdf"
\* the URL has the .pdf extension
UrlIsPdf(url) == url \in {"u1.pdf", "u2.pdf"}
\* a 200 response whose Content-Type does not name a PDF came back
MismatchCase == pc = "downloaded" /\ ~dl_resp.raised /\ dl_resp.status = 200
                /\ ~IndicatesPdf(dl_resp.content_type)
\* the download was refused as not a PDF and left nothing behind
RefusedNotPdf ==
    /\ ~dl_out.row.downloaded
    /\ dl_out.row.error \in {Some("Not a PDF: " \o ct) : ct \in ContentTypes}
    /\ dl_out.row.sha256 = None /\ dl_out.row.file_size_bytes = None
    /\ ~dl_out.file.written

RowsIn(file) == IF file.exists THEN load_incident_manifest(file.lines) ELSE <<>>
\* the file holds a downloaded row with merge key k
HasDownloaded(file, k) ==
    \E i \in 1..Len(RowsIn(file)) : KeyOf(RowsIn(file)[i]) = k /\ RowsIn(file)[i].downloaded

\* C14: a run with --append that comes to its end writes merge_incident_manifests(P, N), P the
\* rows of the manifest file before the run (none if it is missing or
\* empty), N the rows of this run; so the file it writes has no two rows
\* with the same merge key
C14_AppendIsMerge ==
    (pc = "acquired" /\ acq.append /\ acq.raises = "") =>
        /\ manifest.exists
        /\ manifest.lines =
              save_incident_manifest(merge_incident_manifests(RowsIn(before), acq.new_rows))
        /\ NoDupKeys(RowsIn(manifest))

\* C15: over runs that all use --append, starting from a missing manifest, a
\* key that has a downloaded row in the manifest one run found has a
\* downloaded row in the manifest that run wrote
C15_NoRegression ==
    (pc = "acquired" /\ acq.only_append) =>
        \A k \in KeysOf(RowsIn(before)) :
            HasDownloaded(before, k) => HasDownloaded(manifest, k)

\* the text file of position i is there and is not skipped by --resume
Taken(i) ==
    /\ text_dir[TextIds[i]].text # "absent"
    /\ ~(xargs.resume /\ xout.json_before[TextIds[i]] # "none")
\* its turn comes before the limit is used up
Reached(i) ==
    /\ Taken(i)
    /\ xargs.limit # None => Cardinality({j \in 1..(i-1) : Taken(j)}) < xargs.limit[1]
\* no strategy gets a JSON value out of the response
Unparseable(file) ==
    /\ file.text = "text" /\ ~file.llm.raises
    /\ file.llm.direct = "no"
    /\ ~(file.llm.fence /\ file.llm.unfenced # "no")
    /\ file.llm.block # "object"

\* C18: when the response for a text file that is processed cannot be
\* parsed by any strategy (and out_dir can be written), the run returns
\* exactly one row for the incident, with extracted=true, valid=false and
\* validation_errors set, the diagnostic JSON is at the output path, and
\* every later file whose turn comes is processed too
C18_MalformedOutputRecorded ==
    pc = "extracted" =>
        \A i \in 1..Len(TextIds) :
            LET id == TextIds[i] IN
            (Reached(i) /\ Unparseable(text_dir[id]) /\ text_dir[id].disk_ok) =>
                /\ Cardinality(AtId(xout.rows, id)) = 1
                /\ LastOf(xout.rows, id).extracted
                /\ ~LastOf(xout.rows, id).valid
                /\ LastOf(xout.rows, id).validation_errors # None
                /\ LastOf(xout.rows, id).output_json_path = PathOf("json", id)
                /\ out_dir[id] = "error_json"
                /\ \A j \in (i+1)..Len(TextIds) :
                      Reached(j) => Cardinality(AtId(xout.rows, TextIds[j])) = 1

\* i1 got prose with a broken block, i2 and i3 were processed after it
C18_Witness ==
    /\ pc = "extracted" /\ xargs.limit = None
    /\ Unparseable(text_dir["i1"]) /\ text_dir["i1"].llm.block = "bad"
    /\ text_dir["i2"].text = "text" /\ ~text_dir["i2"].llm.raises
    /\ text_dir["i2"].llm.fence /\ text_dir["i2"].llm.unfenced = "object"
    /\ Len(xout.rows) = 3
    /\ xout.rows[1].extracted /\ ~xout.rows[1].valid /\ out_dir["i1"] = "error_json"
    /\ xout.rows[2].valid /\ out_dir["i2"] = "payload"
    /\ xout.json_before["i1"] = "payload"

\* a run of cmd_extract_structured has ended
CmdRan == pc = "cmd_done"
\* the provider named is none of the four the registry knows
UnknownProvider == cmd.name \notin {"stub", "openai", "anthropic", "gemini"}
\* the provider named needs a key the environment does not hold
KeyMissing == cmd.name = "openai" /\ "OPENAI_API_KEY" \notin cmd.env
\* the run did nothing: no text file gave a row, no LLM call, the JSON
\* directory and the manifest file are what they were
NoWork ==
    /\ cmd.processed = {} /\ cmd.calls = <<>>
    /\ out_dir = cmd.json_before
    /\ smanifest = sbefore

\* C19: a run of cmd_extract_structured whose provider name is unknown, or
\* whose provider's API-key variable is missing, raises an error and has
\* read no text file, made no LLM call, written no output JSON and left the
\* structured manifest file as it was; get_provider called with the
\* arguments it declares raises ValueError for the unknown name and
\* RuntimeError for the missing key.
C19_ConfigErrorsFatal ==
    /\ (CmdRan /\ (UnknownProvider \/ KeyMissing)) =>
          /\ cmd.raised \in {"TypeError", "ValueError", "RuntimeError", "NotImplementedError"}
          /\ NoWork
    /\ (pc = "resolved" /\ UnknownProvider) => cmd.raised = "ValueError"
    /\ (pc = "resolved" /\ KeyMissing) => cmd.raised = "RuntimeError"

\* a run with an unknown provider has ended on a manifest that holds rows and
\* a JSON directory that holds files
C19_Witness ==
    /\ CmdRan /\ UnknownProvider
    /\ cmd.raised # ""
    /\ smanifest.exists /\ smanifest.lines # <<>>
    /\ \E id \in TextIdSet : out_dir[id] # "none"

\* a run has gone through the extraction and the manifest write
PassRan == pc \in {"cmd_done", "pass_done"} /\ cmd.raised = ""

\* C20: after a run, every incident_id the structured manifest held before
\* the run is still in it, and the line of an incident for which the run
\* produced no row is the line the file held before, cell for cell.
C20_RowsNeverDropped ==
    pc \in {"cmd_done", "pass_done"} =>
        \A id \in IdsOf(sbefore.lines) :
            /\ id \in IdsOf(smanifest.lines)
            /\ id \notin cmd.processed =>
                  /\ Cardinality(AtId(smanifest.lines, id)) = 1
                  /\ LastOf(smanifest.lines, id) = LastOf(sbefore.lines, id)

\* a run processed one incident and wrote back the row of another that it
\* did not process
C20_Witness ==
    /\ PassRan
    /\ cmd.processed # {}
    /\ \E id \in IdsOf(sbefore.lines) :
          /\ id \notin cmd.processed
          /\ LastOf(smanifest.lines, id) = LastOf(sbefore.lines, id)
          /\ LastOf(smanifest.lines, id).extracted = "True"

\* the last row of l with key k
LastAt(l, k) == l[CHOOSE i \in At(l, k) : \A j \in At(l, k) : j <= i]

\* C21: of several rows of existing with one merge key the last in list
\* order is the one indexed: with no incoming row of that key the output
\* holds that row unchanged, once; with incoming rows every field of the
\* output row is the value of that last row or of an incoming row of the
\* key, never a value only an earlier duplicate carries.
C21_LastWriteWins ==
    MergeDone =>
        \A k \in KeysOf(existing) :
            LET last == LastAt(existing, k) IN
            /\ Cardinality(At(merged, k)) = 1
            /\ At(new, k) = {} => \A m \in At(merged, k) : merged[m] = last
            /\ \A m \in At(merged, k), f \in DOMAIN last :
                  \/ merged[m][f] = last[f]
                  \/ \E j \in At(new, k) : merged[m][f] = new[j][f]

\* existing holds a downloaded row and then a titled stub of the same key,
\* nothing comes in for the key: the stub is the output row
C21_Witness ==
    /\ MergeDone /\ Len(existing) = 2
    /\ KeyOf(existing[1]) = KeyOf(existing[2])
    /\ existing[1].downloaded /\ ~existing[2].downloaded
    /\ existing[1].title = "" /\ existing[2].title # ""
    /\ At(new, KeyOf(existing[1])) = {} /\ new # <<>>
    /\ \E m \in 1..Len(merged) : merged[m] = existing[2]
    /\ \A m \in 1..Len(merged) : merged[m] # existing[1]

\* C26: with no duplicate merge keys in existing, every output row of the
\* merge wins or ties, by the priority rules, against every row of existing
\* and of new that has its merge key, in whatever order the incoming rows
\* come.
C26_OutputIsMaximum ==
    (MergeDone /\ NoDupKeys(existing)) =>
        \A m \in 1..Len(merged) :
            \A x \in RowsOf(existing) \cup RowsOf(new) :
                KeyOf(x) = KeyOf(merged[m]) => FirstNonTie(merged[m], x) <= 0

\* the first incoming row beats the existing row, the second beats the
\* existing row too but loses to the first: the output carries the first
C26_Witness ==
    /\ MergeDone /\ Len(existing) = 1 /\ Len(new) = 2 /\ Len(merged) = 1
    /\ KeyOf(new[1]) = KeyOf(existing[1]) /\ KeyOf(new[2]) = KeyOf(existing[1])
    /\ FirstNonTie(new[1], existing[1]) < 0
    /\ FirstNonTie(new[2], existing[1]) < 0
    /\ FirstNonTie(new[1], new[2]) < 0
    /\ SameOn(StateFields, merged[1], new[1])
    /\ ~SameOn(StateFields, merged[1], new[2])

\* the identity of a row with the kind of its discriminator spelled out
EntityOf(r) ==
    <<r.source, IF r.pdf_url # "" THEN "pdf_url" ELSE "incident_id",
      IF r.pdf_url # "" THEN r.pdf_url ELSE r.incident_id>>

FailedDownload(resp) == resp.raised \/ resp.status # 200 \/ resp.breaks \/ resp.disk_fails

C28_ManifestMatchesDisk ==
    (pc = "acquired" /\ acq.only_download) =>
        \A i \in 1..Len(RowsIn(manifest)) :
            LET r == RowsIn(manifest)[i] IN
            (r.downloaded /\ r.sha256 # None) =>
                /\ acq.disk[r.pdf_path].written
                /\ Some(acq.disk[r.pdf_path].sha256) = r.sha256
                /\ Some(acq.disk[r.pdf_path].size) = r.file_size_bytes

\* the ExtractionRecords of a text manifest file, by identity
TextIdentities(file) == {<<file.lines[i].source, file.lines[i].incident_id>> : i \in 1..Len(file.lines)}

\* C25: a run of cmd_extract_text leaves in the text manifest every record
\* the file held before the run: those it creates again are replaced, the
\* others are still there.
C25_TextRecordsUpserted ==
    pc = "text_done" => TextIdentities(tbefore) \subseteq TextIdentities(tmanifest)

\* the text file of incident id is in the directory
Present(id) == text_dir[id].text # "absent"
\* the run made an LLM call for incident id
Called(id) == \E k \in 1..Len(xout.calls) : xout.calls[k] = id
\* the number of rows a limit allows among n files
Allowed(n) == IF xargs.limit = None \/ n < xargs.limit[1] THEN n ELSE xargs.limit[1]

\* C23: with resume=True a text file whose output JSON exists is skipped: no
\* LLM call, no write of its output JSON or raw response, no row, and it
\* uses up nothing of the limit (the run returns as many rows as the limit
\* allows among the files without output JSON); with resume=False the
\* files are processed from the first up to the limit, output JSON or not.
C23_ResumeSkips ==
    pc = "extracted" =>
        /\ xargs.resume =>
              /\ \A id \in TextIdSet :
                    (Present(id) /\ xout.json_before[id] # "none") =>
                        /\ ~Called(id)
                        /\ id \notin xout.wrote /\ id \notin xout.raw
                        /\ AtId(xout.rows, id) = {}
                        /\ out_dir[id] = xout.json_before[id]
              /\ Len(xout.rows) =
                    Allowed(Cardinality({id \in TextIdSet :
                                Present(id) /\ xout.json_before[id] = "none"}))
        /\ ~xargs.resume =>
              \A i \in 1..Len(TextIds) :
                  (Present(TextIds[i])
                   /\ Cardinality({j \in 1..i : Present(TextIds[j])})
                         <= Allowed(Cardinality({id \in TextIdSet : Present(id)})))
                  => Cardinality(AtId(xout.rows, TextIds[i])) = 1

\* resume with limit 1: i1 has its output JSON and is passed over, i2 is the
\* one file processed
C23_Witness ==
    /\ pc = "extracted" /\ xargs.resume /\ xargs.limit = Some(1)
    /\ Present("i1") /\ text_dir["i1"].text = "text" /\ xout.json_before["i1"] = "payload"
    /\ Present("i2") /\ xout.json_before["i2"] = "none"
    /\ IdsOf(xout.rows) = {"i2"} /\ xout.wrote = {"i2"}
    /\ xout.calls = <<"i2">>

\* C24: the rows returned are one row for each file whose turn came (in the
\* directory, not skipped by resume, before the limit was used up), in
\* sorted file-name order and whatever the processing met; no incident_id
\* twice; with a limit, at most limit rows.
C24_OneRowPerFile ==
    pc = "extracted" =>
        LET reached == SelectSeq(<<1, 2, 3>>, LAMBDA i : Reached(i)) IN
        /\ Len(xout.rows) = Len(reached)
        /\ \A k \in 1..Len(reached) : xout.rows[k].incident_id = TextIds[reached[k]]
        /\ \A id \in TextIdSet : Cardinality(AtId(xout.rows, id)) <= 1
        /\ xargs.limit # None => Len(xout.rows) <= xargs.limit[1]

\* limit 2 on three files: an empty text and a raising provider give the
\* two rows, the third file is left
C24_Witness ==
    /\ pc = "extracted" /\ ~xargs.resume /\ xargs.limit = Some(2)
    /\ text_dir["i1"].text = "empty"
    /\ text_dir["i2"].text = "text" /\ text_dir["i2"].llm.raises
    /\ text_dir["i3"].text = "text" /\ ~text_dir["i3"].llm.raises
    /\ Len(xout.rows) = 2
    /\ xout.rows[1].incident_id = "i1" /\ xout.rows[2].incident_id = "i2"
    /\ xout.rows[1].error # None /\ xout.rows[2].error # None

\* processing the file writes an output JSON: the text is not empty, the
\* provider answers with something that is not a JSON array, and the output
\* directory can be written
Processable(file) ==
    /\ file.text = "text" /\ ~file.llm.raises /\ file.disk_ok
    /\ file.llm.direct # "array"

\* C29: on a fixed text directory whose output directory can be written, a
\* run with resume=True and a limit of at least 1 that writes no output
\* JSON leaves no processable file without one (each run repeats the last
\* unless it writes a JSON, so a run that writes none while a processable
\* file waits postpones that file forever).
C29_ResumeProgress ==
    (/\ pc = "extracted" /\ xargs.resume
     /\ xargs.limit # None /\ xargs.limit[1] >= 1
     /\ \A id \in TextIdSet : text_dir[id].disk_ok
     /\ xout.wrote = {}) =>
        \A id \in TextIdSet : Processable(text_dir[id]) => out_dir[id] # "none"

\* C30: every row returned has extracted=true exactly when this run wrote
\* the output JSON of its incident, and a row with a non-empty error has
\* extracted=false and valid=false.
C30_FlagsMatchWrites ==
    pc = "extracted" =>
        \A k \in 1..Len(xout.rows) :
            LET r == xout.rows[k] IN
            /\ r.extracted <=> r.incident_id \in xout.wrote
            /\ TruthyOptStr(r.error) => (~r.extracted /\ ~r.valid)

====
